---- MODULE Spec2Model ----
(***************************************************************************)
(* Model of the command loop of src/mcp_checkov_chatbot/main.py: the scan, *)
(* advise and verify workflow around the Checkov scanner, the language     *)
(* model client and the branch-push step.                                  *)
(*                                                                         *)
(* The external collaborators (docker, terraform, the HTTP backend, the    *)
(* user at the prompt) are inputs: every action draws their behaviour from *)
(* a small set with \E.                                                    *)
(***************************************************************************)
EXTENDS Integers, Sequences, FiniteSets, TLC

VARIABLES
    pc,             \* position of main(): "input", "advising", "exited", "crashed"
    chat_messages,  \* main.py:154  the conversation list
    report_file,    \* the artifact report.json on disk (Absent or its text)
    todo,           \* main.py:189  the slice failed[:3] being iterated
    idx,            \* main.py:189  position of the for loop in todo (1-based)
    trace,          \* what the current command did so far: external calls and prints
    commands,       \* number of commands read from the prompt so far
    sent_messages,  \* main.py:93  the messages of the latest request to the backend
    llm_calls       \* number of calls of get_response so far

vars == <<pc, chat_messages, report_file, todo, idx, trace, commands,
          sent_messages, llm_calls>>

----------------------------------------------------------------------------
(* Bounds of the model *)

\* commands read in one session
MaxCommands == 2

\* largest number of failed checks in one report
MaxFailed == 4

----------------------------------------------------------------------------
(* Program constants *)

\* main.py:189  for check in failed[:3]
TopK == 3

\* main.py:103  the text get_response returns when the call fails
GPT_ERROR == "GPT Error"

\* main.py:154-157  the initial conversation
SystemMessage == [role |-> "system", content |-> [kind |-> "text", text |-> "You are a DevSecOps assistant"]]

----------------------------------------------------------------------------
(* Sequences *)

Min(a, b) == IF a <= b THEN a ELSE b

\* s[:k] of Python
Take(s, k) == SubSeq(s, 1, Min(k, Len(s)))

IsPrefix(s, t) == Len(s) <= Len(t) /\ SubSeq(t, 1, Len(s)) = s

----------------------------------------------------------------------------
(* The scanner's report *)

\* The failed checks a report can hold: finding k of the catalogue.  Findings 1
\* and 4 violate the same rule on different resources.
Finding(k) ==
    [check_id   |-> IF k = 4 THEN 1 ELSE k,
     check_name |-> IF k = 4 THEN 1 ELSE k,
     resource   |-> k,
     file_path  |-> IF k % 2 = 0 THEN "/s3.tf" ELSE "/main.tf",
     code_block |-> IF k % 2 = 0 THEN << <<k, "resource {">>, <<k + 1, "}">> >>
                                  ELSE << <<k, "  acl = public">> >>]

\* The first n failed checks in the scanner's emission order, which is not
\* the order of the identifiers: findings 2, 1, 4, 3, ...
Emitted(n) == [i \in 1..n |-> Finding(IF i % 2 = 1 THEN i + 1 ELSE i - 1)]

FailedLists == {Emitted(n) : n \in 0..MaxFailed}

\* report.json does not exist
Absent == [kind |-> "absent"]

\* What the scanner can write to its standard output:
\*   invalid    text that is no JSON document (empty output, an error message)
\*   nonobject  a JSON document that is no object (Checkov emits a list when
\*              several frameworks report)
\*   object     a JSON object, with or without "results" and "failed_checks"
Stdouts ==
    {[kind |-> "invalid"], [kind |-> "nonobject"]}
    \cup {[kind |-> "object", has_results |-> FALSE, has_failed |-> FALSE, failed_checks |-> << >>]}
    \cup {[kind |-> "object", has_results |-> TRUE, has_failed |-> FALSE, failed_checks |-> << >>]}
    \cup {[kind |-> "object", has_results |-> TRUE, has_failed |-> TRUE, failed_checks |-> f] :
            f \in FailedLists}

\* json_load taking text that is no JSON for an empty report
json_load_lenient(text) ==
    IF text.kind = "invalid"
    THEN [ok |-> TRUE, report |-> [kind |-> "object", has_results |-> FALSE,
                                   has_failed |-> FALSE, failed_checks |-> << >>]]
    ELSE [ok |-> TRUE, report |-> text]

\* json_load whose JSONDecodeError is not caught as a parse failure
json_load_unchecked(text) == [ok |-> TRUE, report |-> text]

\* main.py:181  json.load(f): JSONDecodeError for text that is no JSON
json_load(text) ==
    IF text.kind = "invalid"
    THEN [ok |-> FALSE, report |-> text]
    ELSE [ok |-> TRUE, report |-> text]

\* get_failed_checks without the defaults: report["results"]["failed_checks"]
get_failed_checks_strict(report) ==
    IF report.kind = "object" /\ report.has_results /\ report.has_failed
    THEN [raised |-> FALSE, failed |-> report.failed_checks]
    ELSE [raised |-> TRUE, failed |-> << >>]

\* main.py:186  report.get("results", {}).get("failed_checks", []);
\* a document that is no object has no .get: AttributeError
get_failed_checks(report) ==
    IF report.kind # "object"
    THEN [raised |-> TRUE, failed |-> << >>]
    ELSE IF report.has_results /\ report.has_failed
         THEN [raised |-> FALSE, failed |-> report.failed_checks]
         ELSE [raised |-> FALSE, failed |-> << >>]

----------------------------------------------------------------------------
(* External collaborators *)

\* How one invocation of the scanner container can go:
\*   oserror   subprocess.run cannot start docker (FileNotFoundError,
\*             PermissionError): an OSError, which is no SubprocessError
\*   suberror  subprocess.run raises a SubprocessError
\*   ran       the process ran (whatever its exit code) and printed stdout
ScanOutcomes ==
    {[how |-> "oserror", stdout |-> Absent], [how |-> "suberror", stdout |-> Absent]}
    \cup {[how |-> "ran", stdout |-> s] : s \in Stdouts}

\* main.py:45-60  run_checkov_scan: the message returned, the report file
\* afterwards, and whether an exception leaves the function
run_checkov_scan(outcome, file) ==
    CASE outcome.how = "ran" ->
            [raised |-> FALSE, msg |-> "Checkov scan done", file |-> outcome.stdout]
      [] outcome.how = "suberror" ->
            [raised |-> FALSE, msg |-> "Checkov error", file |-> file]
      [] OTHER ->
            [raised |-> TRUE, msg |-> "OSError", file |-> file]

\* How one invocation of the branch-push container can go: docker cannot be
\* started, or the bash script runs with these outcomes of its commands
\* (pre: apt update ... git add, taken together; git commit does not run, and
\* counts as failed, when one of them fails)
PushOutcomes ==
    {[how |-> "oserror", pre |-> FALSE, commit |-> FALSE, push |-> FALSE]}
    \cup {[how |-> "ran", pre |-> TRUE, commit |-> b, push |-> c] : b, c \in BOOLEAN}
    \cup {[how |-> "ran", pre |-> FALSE, commit |-> FALSE, push |-> c] : c \in BOOLEAN}

\* main.py:115-125  the script's exit status, by the shell's left-associative
\* && and ||:  pre && commit || echo 'Nothing to commit' && push
ScriptSucceeds(outcome) ==
    LET afterCommit == IF outcome.pre THEN outcome.commit ELSE FALSE
        afterEcho   == IF afterCommit THEN TRUE ELSE TRUE
    IN  IF afterEcho THEN outcome.push ELSE FALSE

\* main.py:106-129  create_git_pr_docker: check=True raises CalledProcessError
\* on a non-zero exit, which is caught; an OSError is not
create_git_pr_docker(outcome) ==
    CASE outcome.how = "oserror" -> [raised |-> TRUE, msg |-> "OSError"]
      [] outcome.how = "ran" /\ ScriptSucceeds(outcome) ->
            [raised |-> FALSE, msg |-> "PR branch pushed"]
      [] OTHER -> [raised |-> FALSE, msg |-> "Error creating PR"]

\* What the language-model backend can answer: a completion, or one of the
\* failures of main.py:98-100 (httpx.post raises, raise_for_status raises, the
\* body has no choices[0].message.content)
LLMResponses ==
    {[ok |-> TRUE, why |-> "completion", content |-> "advice"]}
    \cup {[ok |-> FALSE, why |-> w, content |-> ""] :
            w \in {"network", "status", "malformed"}}

\* request_messages with the new prompt alone
request_messages_last_only(messages) == <<messages[Len(messages)]>>

\* main.py:91-96  the "messages" of the request payload: the list passed in
request_messages(messages) == messages

\* main.py:86-103  LLMClient.get_response
get_response(messages, response) ==
    IF response.ok THEN response.content ELSE GPT_ERROR

\* How a terraform subprocess can go: it cannot be started, or it runs, exits
\* with code 0 or not, and prints something or nothing
ToolOutcomes ==
    {[how |-> "exception", zero |-> FALSE, silent |-> TRUE]}
    \cup {[how |-> "ran", zero |-> z, silent |-> q] : z, q \in BOOLEAN}

\* main.py:17-23  check_terraform_fmt
check_terraform_fmt(outcome) ==
    CASE outcome.how = "exception" -> "Error running terraform fmt"
      [] outcome.zero -> "All Terraform files are correctly formatted"
      [] OTHER -> "Formatting issues"

\* main.py:26-32  auto_terraform_fmt: result.stdout.strip() or the fixed line
auto_terraform_fmt(outcome) ==
    CASE outcome.how = "exception" -> "Error running terraform fmt"
      [] outcome.silent -> "Auto-format complete. No changes"
      [] OTHER -> "terraform fmt output"

\* main.py:35-42  check_terraform_validate
check_terraform_validate(outcome) ==
    CASE outcome.how = "exception" -> "Error running terraform validate"
      [] outcome.zero -> "Terraform configuration is valid"
      [] OTHER -> "Validation failed"

----------------------------------------------------------------------------
(* The conversation *)

\* append_message with the reply written over the last message
append_message_overwriting(messages, role, content) ==
    IF role = "assistant"
    THEN [messages EXCEPT ![Len(messages)] = [role |-> role, content |-> content]]
    ELSE Append(messages, [role |-> role, content |-> content])

\* append_message leaving a failed reply out of the conversation
append_message_dropping_errors(messages, role, content) ==
    IF role = "assistant" /\ content.text = GPT_ERROR
    THEN messages
    ELSE Append(messages, [role |-> role, content |-> content])

\* main.py:208, 211, 239, 242  chat_messages.append({"role": ..., "content": ...})
append_message(messages, role, content) ==
    Append(messages, [role |-> role, content |-> content])

\* main.py:194  "\n".join(line[1] for line in check.get("code_block", [])):
\* the line texts in order, without the line numbers
join_code_block(code_block) == [k \in 1..Len(code_block) |-> code_block[k][2]]

\* main.py:196-207  the prompt built for one failed check
Prompt(check) ==
    [kind       |-> "prompt",
     check_name |-> check.check_name,
     check_id   |-> check.check_id,
     resource   |-> check.resource,
     file_path  |-> check.file_path,
     code_block |-> join_code_block(check.code_block)]

\* a free-text line as message content
Text(t) == [kind |-> "text", text |-> t]

----------------------------------------------------------------------------
(* What a command does, as seen from outside: calls and printed lines *)

Event(ev, txt, id, val) == [ev |-> ev, txt |-> txt, id |-> id, val |-> val]

Printed(txt) == Event("print", txt, 0, "")

PrintedN(txt, n) == Event("print", txt, n, "")

Called(what, how) == Event(what, how, 0, "")

\* the line read at the prompt, after strip().lower()
Read(user_input) == Event("input", user_input, 0, "")

----------------------------------------------------------------------------
(* The prompt *)

\* Lines the user can type, as typed
RawInputs ==
    {"exit", "fmt", "auto_fmt", "validate", "scan", "pr", " Exit", "SCAN ", "Fix my bucket"}

\* main.py:162  input(...).strip().lower()
StripLower(raw) ==
    CASE raw = " Exit" -> "exit"
      [] raw = "SCAN " -> "scan"
      [] raw = "Fix my bucket" -> "fix my bucket"
      [] OTHER -> raw

\* CommandWords with the pr branch falling through to the else branch
CommandWordsWithoutPr == {"exit", "fmt", "auto_fmt", "validate", "scan"}

\* main.py:164-215  the words with a branch of their own in the if/elif chain
CommandWords == {"exit", "fmt", "auto_fmt", "validate", "scan", "pr"}

\* Reads with the branch taken whatever command word was typed
ReadsAnyCommand(raw, word) ==
    /\ pc = "input"
    /\ commands < MaxCommands
    /\ StripLower(raw) \in CommandWords
    /\ commands' = commands + 1

\* main.py:161-176, 215  the loop reads the next line and takes the branch
\* of the if/elif chain whose word equals user_input
Reads(raw, word) ==
    /\ pc = "input"
    /\ commands < MaxCommands
    /\ StripLower(raw) = word
    /\ commands' = commands + 1

\* an exception leaves main(): the process ends with a traceback
Crash(events) ==
    /\ pc' = "crashed"
    /\ trace' = events
    /\ UNCHANGED <<chat_messages, todo, idx, sent_messages, llm_calls>>

\* the command is over, the loop goes back to the prompt
BackToInput(events) ==
    /\ pc' = "input"
    /\ trace' = events
    /\ UNCHANGED <<chat_messages, todo, idx, sent_messages, llm_calls>>

----------------------------------------------------------------------------
(* Commands *)

\* report.json as an earlier session may have left it
LeftoverFiles ==
    {Absent, [kind |-> "invalid"],
     [kind |-> "object", has_results |-> TRUE, has_failed |-> TRUE, failed_checks |-> Emitted(1)]}

Init ==
    /\ pc = "input"
    /\ chat_messages = <<SystemMessage>>
    /\ report_file \in LeftoverFiles
    /\ todo = << >>
    /\ idx = 1
    /\ trace = << >>
    /\ commands = 0
    /\ sent_messages = << >>
    /\ llm_calls = 0

\* main.py:164-165
Exit ==
    \E raw \in RawInputs :
        /\ Reads(raw, "exit")
        /\ pc' = "exited"
        /\ trace' = <<Read(StripLower(raw))>>
        /\ UNCHANGED <<chat_messages, report_file, todo, idx, sent_messages, llm_calls>>

\* main.py:167-168
Fmt ==
    \E raw \in RawInputs, o \in ToolOutcomes :
        /\ Reads(raw, "fmt")
        /\ BackToInput(<<Read(StripLower(raw)), Called("terraform", o.how), Printed(check_terraform_fmt(o))>>)
        /\ UNCHANGED report_file

\* main.py:170-171
AutoFmt ==
    \E raw \in RawInputs, o \in ToolOutcomes :
        /\ Reads(raw, "auto_fmt")
        /\ BackToInput(<<Read(StripLower(raw)), Called("terraform", o.how), Printed(auto_terraform_fmt(o))>>)
        /\ UNCHANGED report_file

\* main.py:173-174
Validate ==
    \E raw \in RawInputs, o \in ToolOutcomes :
        /\ Reads(raw, "validate")
        /\ BackToInput(<<Read(StripLower(raw)), Called("terraform", o.how), Printed(check_terraform_validate(o))>>)
        /\ UNCHANGED report_file

\* top_findings without the cap
top_findings_uncapped(failed) == failed

\* main.py:189  failed[:3]
top_findings(failed) == Take(failed, TopK)

\* main.py:176-188 and 212-213  the scan command up to the advising loop
Scan ==
    \E raw \in RawInputs, o \in ScanOutcomes :
        /\ Reads(raw, "scan")
        /\ LET r  == run_checkov_scan(o, report_file)
               t1 == <<Read(StripLower(raw)), Called("scanner", o.how)>>
               t2 == Append(t1, Printed(r.msg))
           IN
           /\ report_file' = r.file
           /\ IF r.raised THEN Crash(t1)
              ELSE IF r.file = Absent THEN BackToInput(t2)
              ELSE LET p == json_load(r.file) IN
                   IF ~p.ok
                   THEN BackToInput(Append(t2, Printed("Failed to parse Checkov report")))
                   ELSE LET g == get_failed_checks(p.report) IN
                        IF g.raised THEN Crash(t2)
                        ELSE IF g.failed = << >>
                        THEN BackToInput(Append(t2, Printed("No failed checks found")))
                        ELSE /\ pc' = "advising"
                             /\ todo' = top_findings(g.failed)
                             /\ idx' = 1
                             /\ trace' = Append(t2, PrintedN("Found issues", Len(g.failed)))
                             /\ UNCHANGED <<chat_messages, sent_messages, llm_calls>>

\* Advise leaving the loop when the call fails
AdviseAborting ==
    \E response \in LLMResponses :
        /\ pc = "advising"
        /\ LET check  == todo[idx]
               sent   == append_message(chat_messages, "user", Prompt(check))
               reply  == get_response(sent, response)
           IN
           /\ sent_messages' = request_messages(sent)
           /\ llm_calls' = llm_calls + 1
           /\ chat_messages' = append_message(sent, "assistant", Text(reply))
           /\ trace' = trace \o <<Event("llm", response.why, Len(sent), ""),
                                  Event("print", "Suggestion", check.check_id, reply)>>
        /\ idx' = idx + 1
        /\ pc' = IF idx < Len(todo) /\ response.ok THEN "advising" ELSE "input"
        /\ UNCHANGED <<report_file, todo, commands>>

\* Advise calling the backend a second time when the first call fails
AdviseRetrying ==
    \E response \in LLMResponses, again \in LLMResponses :
        /\ pc = "advising"
        /\ LET check  == todo[idx]
               sent   == append_message(chat_messages, "user", Prompt(check))
               final  == IF response.ok THEN response ELSE again
               reply  == get_response(sent, final)
               calls  == IF response.ok
                         THEN <<Event("llm", response.why, Len(sent), "")>>
                         ELSE <<Event("llm", response.why, Len(sent), ""),
                                Event("llm", again.why, Len(sent), "")>>
           IN
           /\ sent_messages' = request_messages(sent)
           /\ llm_calls' = llm_calls + Len(calls)
           /\ chat_messages' = append_message(sent, "assistant", Text(reply))
           /\ trace' = trace \o calls \o
                          <<Event("print", "Suggestion", check.check_id, reply)>>
        /\ idx' = idx + 1
        /\ pc' = IF idx < Len(todo) THEN "advising" ELSE "input"
        /\ UNCHANGED <<report_file, todo, commands>>

\* Advise keeping the suggestions back and printing them all after the last call
AdviseBatching ==
    \E response \in LLMResponses :
        /\ pc = "advising"
        /\ LET check  == todo[idx]
               sent   == append_message(chat_messages, "user", Prompt(check))
               reply  == get_response(sent, response)
               after  == append_message(sent, "assistant", Text(reply))
               base   == Len(after) - 2 * Len(todo)
               batch  == [k \in 1..Len(todo) |->
                            Event("print", "Suggestion", todo[k].check_id,
                                  after[base + 2 * k].content.text)]
           IN
           /\ sent_messages' = request_messages(sent)
           /\ llm_calls' = llm_calls + 1
           /\ chat_messages' = after
           /\ trace' = trace \o <<Event("llm", response.why, Len(sent), "")>> \o
                          (IF idx < Len(todo) THEN << >> ELSE batch)
        /\ idx' = idx + 1
        /\ pc' = IF idx < Len(todo) THEN "advising" ELSE "input"
        /\ UNCHANGED <<report_file, todo, commands>>

\* main.py:189-211  one iteration of the advising loop
Advise ==
    \E response \in LLMResponses :
        /\ pc = "advising"
        /\ LET check  == todo[idx]
               sent   == append_message(chat_messages, "user", Prompt(check))
               reply  == get_response(sent, response)
           IN
           /\ sent_messages' = request_messages(sent)
           /\ llm_calls' = llm_calls + 1
           /\ chat_messages' = append_message(sent, "assistant", Text(reply))
           /\ trace' = trace \o <<Event("llm", response.why, Len(sent), ""),
                                  Event("print", "Suggestion", check.check_id, reply)>>
        /\ idx' = idx + 1
        /\ pc' = IF idx < Len(todo) THEN "advising" ELSE "input"
        /\ UNCHANGED <<report_file, todo, commands>>

\* verdict taken from the push alone: always resolved
verdict_always_resolved(failed) == Printed("All vulnerabilities resolved")

\* main.py:233-236  the line that classifies the cycle
verdict(failed) ==
    IF failed # << >>
    THEN PrintedN("Still found issues", Len(failed))
    ELSE Printed("All vulnerabilities resolved")

\* how far the script of the push container came before git push
PushSteps(outcome) ==
    CASE outcome.how = "oserror" -> "oserror"
      [] ~outcome.pre -> "pre failed"
      [] ~outcome.commit -> "nothing to commit"
      [] OTHER -> "committed"

\* the exit status of the push container, as subprocess.run sees it (the
\* push event also records whether git push itself succeeded: id 1 or 0)
PushStatus(outcome) ==
    CASE outcome.how = "oserror" -> "not started"
      [] ScriptSucceeds(outcome) -> "zero"
      [] OTHER -> "nonzero"

\* Pr with the scan run before the push
PrVerifyingFirst ==
    \E raw \in RawInputs, po \in PushOutcomes, o \in ScanOutcomes :
        /\ Reads(raw, "pr")
        /\ LET r  == run_checkov_scan(o, report_file)
               pr_result == create_git_pr_docker(po)
               t0 == <<Read(StripLower(raw)), Called("scanner", o.how)>>
               t1 == t0 \o <<Printed(r.msg), Printed("Creating GitHub PR"),
                              Event("push", PushSteps(po), IF po.push THEN 1 ELSE 0, PushStatus(po))>>
           IN
           /\ report_file' = r.file
           /\ IF r.raised THEN Crash(t0)
              ELSE IF pr_result.raised THEN Crash(t1)
              ELSE BackToInput(Append(t1, Printed(pr_result.msg)))

\* main.py:215-236  the pr command: push, then scan again and classify
Pr ==
    \E raw \in RawInputs, po \in PushOutcomes, o \in ScanOutcomes :
        /\ Reads(raw, "pr")
        /\ LET pr_result == create_git_pr_docker(po)
               t0 == <<Read(StripLower(raw)), Printed("Creating GitHub PR"),
                       Event("push", PushSteps(po), IF po.push THEN 1 ELSE 0, PushStatus(po))>>
               t1 == t0 \o <<Printed(pr_result.msg), Printed("Re-running Checkov")>>
               r  == run_checkov_scan(o, report_file)
               t2 == Append(t1, Called("scanner", o.how))
               t3 == Append(t2, Printed(r.msg))
           IN
           IF pr_result.raised
           THEN Crash(t0) /\ UNCHANGED report_file
           ELSE /\ report_file' = r.file
                /\ IF r.raised THEN Crash(t2)
                   ELSE IF r.file = Absent THEN BackToInput(t3)
                   ELSE LET p == json_load(r.file) IN
                        IF ~p.ok
                        THEN BackToInput(Append(t3, Printed("Failed to parse Checkov report")))
                        ELSE LET g == get_failed_checks(p.report) IN
                             IF g.raised THEN Crash(t3)
                             ELSE BackToInput(Append(t3, verdict(g.failed)))

\* main.py:238-242  any other line goes to the language model
FreeChat ==
    \E raw \in RawInputs, response \in LLMResponses :
        /\ pc = "input"
        /\ commands < MaxCommands
        /\ StripLower(raw) \notin CommandWords
        /\ commands' = commands + 1
        /\ LET user_input == StripLower(raw)
               sent  == append_message(chat_messages, "user", Text(user_input))
               reply == get_response(sent, response)
           IN
           /\ sent_messages' = request_messages(sent)
           /\ llm_calls' = llm_calls + 1
           /\ chat_messages' = append_message(sent, "assistant", Text(reply))
           /\ trace' = <<Read(user_input),
                         Event("llm", response.why, Len(sent), ""),
                         Event("print", "GPT-4o", 0, reply)>>
        /\ pc' = "input"
        /\ UNCHANGED <<report_file, todo, idx>>

Next ==
    \/ Exit
    \/ Fmt
    \/ AutoFmt
    \/ Validate
    \/ Scan
    \/ Advise
    \/ Pr
    \/ FreeChat

Spec == Init /\ [][Next]_vars

----------------------------------------------------------------------------
(* Reading the trace of the current command *)

\* the command being run, or last run
Command == IF trace = << >> THEN "" ELSE trace[1].txt

IsLLMCall(e) == e.ev = "llm"

IsSuggestion(e) == e.ev = "print" /\ e.txt = "Suggestion"

\* the language-model calls of the command, in order
LLMCalls == SelectSeq(trace, IsLLMCall)

\* the suggestions printed by the command, in order
Suggestions == SelectSeq(trace, IsSuggestion)

HasPrinted(txt) == \E i \in DOMAIN trace : trace[i].ev = "print" /\ trace[i].txt = txt

HasCalled(what, how) == \E i \in DOMAIN trace : trace[i].ev = what /\ trace[i].txt = how

\* the findings of a report document (spec section 6: results.failed_checks,
\* no findings when the array is absent)
ReportFindings(file) ==
    IF file.kind = "object" /\ file.has_results /\ file.has_failed
    THEN file.failed_checks
    ELSE << >>

\* run_checkov_scan was called in this command and returned
ScannerReturned == HasCalled("scanner", "ran") \/ HasCalled("scanner", "suberror")

\* a scan command has come to its end on a report that is a JSON object
ScanEndedOnReport ==
    /\ pc = "input"
    /\ Command = "scan"
    /\ ScannerReturned
    /\ report_file.kind = "object"

----------------------------------------------------------------------------
(* Claims *)

\* C1: when the language-model call fails, no assistant message is appended:
\* the failure text never becomes a message of the conversation.
C1_FailureNeverInHistory ==
    \A i \in DOMAIN chat_messages :
        chat_messages[i].role = "assistant" => chat_messages[i].content.text # GPT_ERROR

\* C2: the conversation is append-only (every step leaves the old conversation
\* as a prefix of the new one), and a suggestion request that succeeds extends
\* it by exactly the user prompt followed by the assistant reply.
C2_AppendOnly ==
    [][/\ IsPrefix(chat_messages, chat_messages')
       /\ (pc = "advising" /\ trace'[Len(trace') - 1].txt = "completion")
            => chat_messages' = chat_messages \o
                 <<[role |-> "user", content |-> Prompt(todo[idx])],
                   [role |-> "assistant", content |-> Text(trace'[Len(trace')].val)]>>]_vars

\* C2 witness: a suggestion request has succeeded on a conversation that
\* already held earlier turns
C2_Witness ==
    /\ Command = "scan"
    /\ Len(chat_messages) >= 5
    /\ LLMCalls # << >>
    /\ LLMCalls[Len(LLMCalls)].txt = "completion"
    /\ chat_messages[Len(chat_messages)].content.text = "advice"

\* C3: a scan whose report holds n failed checks calls the advisor exactly
\* min(n, 3) times, for the first min(n, 3) findings in the report's order.
C3_TopThreeAdvised ==
    ScanEndedOnReport =>
        LET f == ReportFindings(report_file)
            m == Min(Len(f), 3)
            base == Len(chat_messages) - 2 * m
        IN  /\ Len(LLMCalls) = m
            /\ base >= 1
            /\ \A k \in 1..m :
                 chat_messages[base + 2 * k - 1] = [role |-> "user", content |-> Prompt(f[k])]

\* C3 witness: a scan of a report with more than 3 failed checks has ended
C3_Witness ==
    /\ ScanEndedOnReport
    /\ Len(ReportFindings(report_file)) > 3
    /\ Len(LLMCalls) = 3

\* C4: a failed language-model call ends neither the advising loop nor the
\* command loop: at the end of a scan each of the first min(n, 3) findings has
\* its outcome printed, the failure text where its call failed.
C4_FailureIsolated ==
    /\ pc = "crashed" => LLMCalls = << >>
    /\ ScanEndedOnReport =>
        LET f == ReportFindings(report_file)
            m == Min(Len(f), 3)
        IN  /\ Len(Suggestions) = m
            /\ Len(LLMCalls) = m
            /\ \A k \in 1..m :
                 /\ Suggestions[k].id = f[k].check_id
                 /\ (Suggestions[k].val = GPT_ERROR) <=> (LLMCalls[k].txt # "completion")

\* C4 witness: the call for finding 2 of 3 failed, findings 1 and 3 were advised
C4_Witness ==
    /\ ScanEndedOnReport
    /\ Len(Suggestions) = 3
    /\ LLMCalls[2].txt = "network"
    /\ Suggestions[1].val = "advice"
    /\ Suggestions[2].val = GPT_ERROR
    /\ Suggestions[3].val = "advice"

\* C5: in a pr command every failure of the push step is reported and is
\* followed by a scanner invocation in the same command.
C5_ReverifyAfterAnyPushFailure ==
    Command = "pr" =>
        \A i \in DOMAIN trace :
            (trace[i].ev = "push" /\ trace[i].val # "zero") =>
                /\ \E j \in DOMAIN trace :
                     j > i /\ trace[j] = Printed("Error creating PR")
                /\ \E k \in DOMAIN trace : k > i /\ trace[k].ev = "scanner"

\* C6: a pr command whose post-fix report parses (the scanner ran and wrote a
\* report object) prints the verdict of that report alone: resolved iff the
\* report has no findings, unresolved iff it has some, whatever the push did.
C6_VerdictFromReportAlone ==
    (Command = "pr" /\ HasCalled("scanner", "ran") /\ report_file.kind = "object") =>
        /\ pc = "input"
        /\ HasPrinted("All vulnerabilities resolved") <=> ReportFindings(report_file) = << >>
        /\ HasPrinted("Still found issues") <=> ReportFindings(report_file) # << >>

\* C6 witness: the push failed, the post-fix report has findings, the verdict
\* is unresolved and the push failure is printed as well
C6_Witness ==
    /\ Command = "pr"
    /\ HasCalled("scanner", "ran")
    /\ \E i \in DOMAIN trace : trace[i].ev = "push" /\ trace[i].val = "nonzero"
    /\ ReportFindings(report_file) # << >>
    /\ HasPrinted("Error creating PR")
    /\ HasPrinted("Still found issues")

\* C7: when the report read by the reverify step is no JSON, the pr command
\* prints the parse failure and neither the resolved nor the unresolved verdict.
C7_UnparsableIsInconclusive ==
    (Command = "pr" /\ ScannerReturned /\ report_file.kind = "invalid") =>
        /\ pc = "input"
        /\ HasPrinted("Failed to parse Checkov report")
        /\ ~HasPrinted("All vulnerabilities resolved")
        /\ ~HasPrinted("Still found issues")

\* C7 witness: a reverify step has read a report that is no JSON
C7_Witness ==
    /\ Command = "pr"
    /\ HasCalled("scanner", "ran")
    /\ report_file.kind = "invalid"
    /\ HasPrinted("Failed to parse Checkov report")

\* C8: when the report read by a scan is no JSON, the scan prints the parse
\* failure, not "no failed checks", calls the language model for nothing, does
\* not crash, and the loop is back at the prompt.
C8_MalformedScanReport ==
    (Command = "scan" /\ ScannerReturned /\ report_file.kind = "invalid") =>
        /\ pc = "input"
        /\ HasPrinted("Failed to parse Checkov report")
        /\ ~HasPrinted("No failed checks found")
        /\ ~HasPrinted("Found issues")
        /\ LLMCalls = << >>

\* C8 witness: a scan has read a report that is no JSON, after an earlier command
C8_Witness ==
    /\ Command = "scan"
    /\ HasCalled("scanner", "ran")
    /\ report_file.kind = "invalid"
    /\ pc = "input"
    /\ commands = 2

\* C9: when the scanner's or the push step's binary cannot be started, the
\* process does not terminate: the loop stays alive.
C9_LaunchFailureNotFatal ==
    (HasCalled("scanner", "oserror") \/ HasCalled("push", "oserror")) => pc # "crashed"

\* C10: a scan whose report is an object without findings (an empty
\* failed_checks, or no failed_checks or results section) reports that no
\* failed checks were found, makes no language-model call and leaves the
\* conversation as it was.
C10_NoFindingsNoAdvice ==
    [][(/\ pc = "input"
        /\ Command' = "scan"
        /\ ScannerReturned'
        /\ report_file'.kind = "object"
        /\ ReportFindings(report_file') = << >>)
       => (/\ pc' = "input"
           /\ chat_messages' = chat_messages
           /\ LLMCalls' = << >>
           /\ HasPrinted("No failed checks found")'
           /\ ~HasPrinted("Failed to parse Checkov report")')]_vars

\* C10 witness: a scan of a report without a results section has ended, on a
\* conversation that held earlier turns
C10_Witness ==
    /\ pc = "input"
    /\ Command = "scan"
    /\ HasCalled("scanner", "ran")
    /\ report_file.kind = "object"
    /\ ~report_file.has_results
    /\ HasPrinted("No failed checks found")
    /\ Len(chat_messages) > 1

----------------------------------------------------------------------------
(* Claims, continued *)

IsPush(e) == e.ev = "push"

IsScannerCall(e) == e.ev = "scanner"

\* the invocations of the branch-push step by the command, in order
PushCalls == SelectSeq(trace, IsPush)

\* the invocations of the scanner by the command, in order
ScannerCalls == SelectSeq(trace, IsScannerCall)

\* C11: the branch-push step is invoked only by the pr command, and exactly
\* once by it: no other command invokes it.
C11_PushOnlyOnRequest ==
    Len(PushCalls) = IF Command = "pr" THEN 1 ELSE 0

\* C11 witness: a pr command has pushed once, after a scan that pushed nothing
C11_Witness ==
    /\ Command = "pr"
    /\ Len(PushCalls) = 1
    /\ commands = 2
    /\ \E i \in DOMAIN chat_messages : chat_messages[i].content.kind = "prompt"

\* a line that only the findings of a parsed report make the command print
HasReportLine ==
    \/ HasPrinted("Found issues")
    \/ HasPrinted("No failed checks found")
    \/ HasPrinted("Still found issues")
    \/ HasPrinted("All vulnerabilities resolved")

\* C12: when the report artifact is missing after a scanner invocation (scan
\* or reverify), the command ends with a failure shown to the user, reports
\* neither a verdict nor zero findings, and the loop is back at the prompt.
C12_MissingArtifactSurfaced ==
    (Command \in {"scan", "pr"} /\ ScannerCalls # << >> /\ report_file = Absent) =>
        /\ pc = "input"
        /\ HasPrinted("Checkov error") \/ HasPrinted("Failed to parse Checkov report")
        /\ ~HasPrinted("No failed checks found")
        /\ ~HasPrinted("All vulnerabilities resolved")
        /\ ~HasPrinted("Still found issues")

\* C13: the report a scan or reverify step parses is the one its own scanner
\* invocation wrote: a command prints advice or a verdict drawn from a report
\* only when its scanner invocation ran and wrote the artifact.
C13_ParsedReportIsFresh ==
    (Command \in {"scan", "pr"} /\ HasReportLine) => HasCalled("scanner", "ran")

\* C14: the push step reports failure when git push fails or when a command
\* before git commit fails, and success when there was nothing to commit and
\* git push succeeded.
C14_PushOutcomeReported ==
    \A i \in DOMAIN trace :
        (trace[i].ev = "push" /\ trace[i].txt # "oserror") =>
            /\ (trace[i].txt = "pre failed" \/ trace[i].id = 0)
                 => (HasPrinted("Error creating PR") /\ ~HasPrinted("PR branch pushed"))
            /\ (trace[i].txt = "nothing to commit" /\ trace[i].id = 1)
                 => HasPrinted("PR branch pushed")

\* a scan of this session had findings and gave advice on them
AdvisedInSession ==
    \E i \in DOMAIN chat_messages : chat_messages[i].content.kind = "prompt"

\* C15 as stated: every push is preceded in the session by a scan whose
\* report was parsed and advised upon, and every reverification scan by the
\* push of its own command.
C15_PushOnlyAfterAdvising ==
    /\ PushCalls # << >> => AdvisedInSession
    /\ \A k \in DOMAIN trace :
         (Command = "pr" /\ trace[k].ev = "scanner") =>
             \E i \in 1..(k - 1) : trace[i].ev = "push"

\* C15 amended: the reverification scan is entered only from the push step of
\* the same pr command, and the push step is entered straight from the prompt
\* by the pr command, with or without an advised scan before it.
C15_ReverifyOnlyAfterPush ==
    /\ \A k \in DOMAIN trace :
         (Command = "pr" /\ trace[k].ev = "scanner") =>
             \E i \in 1..(k - 1) : trace[i].ev = "push"
    /\ \A i \in DOMAIN trace :
         trace[i].ev = "push" =>
             /\ trace[1] = Read("pr")
             /\ \A j \in 2..(i - 1) : trace[j].ev = "print"

\* C15 witness: the first command of a session is pr: it pushed and scanned
\* again with no scan or advice before it
C15_Witness ==
    /\ Command = "pr"
    /\ commands = 1
    /\ PushCalls # << >>
    /\ ScannerCalls # << >>
    /\ ~AdvisedInSession

\* C16: no external call is repeated within a command: the scanner and the
\* push step are invoked at most once, and the language model once for each
\* advised finding (once for a free-text line), each call on a conversation
\* that holds a new prompt, whether or not the call before it failed.
C16_NoAutomaticRetry ==
    /\ Len(ScannerCalls) <= 1
    /\ Len(PushCalls) <= 1
    /\ \A k \in 1..(Len(LLMCalls) - 1) : LLMCalls[k + 1].id = LLMCalls[k].id + 2
    /\ pc = "advising" => Len(LLMCalls) = idx - 1
    /\ (pc = "input" /\ Command = "scan" /\ HasPrinted("Found issues"))
         => Len(LLMCalls) = Len(todo)
    /\ (Command # "" /\ Command \notin CommandWords) => Len(LLMCalls) = 1

\* C16 witness: a scan advised on three findings with three calls, the first
\* of which failed
C16_Witness ==
    /\ pc = "input"
    /\ Command = "scan"
    /\ Len(todo) = 3
    /\ Len(LLMCalls) = 3
    /\ LLMCalls[1].txt = "status"

\* C17: every request to the language model carries the whole conversation:
\* it starts with the system message, holds every earlier turn in order, ends
\* with the new user prompt, and has the previous request as a proper prefix.
C17_FullConversationSent ==
    [][llm_calls' # llm_calls =>
        /\ sent_messages'[1] = SystemMessage
        /\ Len(sent_messages') = Len(chat_messages) + 1
        /\ SubSeq(sent_messages', 1, Len(chat_messages)) = chat_messages
        /\ sent_messages'[Len(sent_messages')] =
             [role |-> "user",
              content |-> IF pc = "advising" THEN Prompt(todo[idx]) ELSE Text(Command')]
        /\ llm_calls > 0 =>
             /\ IsPrefix(sent_messages, sent_messages')
             /\ Len(sent_messages) < Len(sent_messages')]_vars

\* C17 witness: a second request has been sent, longer than the first
C17_Witness ==
    /\ llm_calls >= 2
    /\ Len(sent_messages) = 2 * llm_calls
    /\ sent_messages[Len(sent_messages)].role = "user"

\* C18: the suggestion of a finding is printed before the call for the next
\* finding is made: during and after the advising of a scan every call made
\* is directly followed by its suggestion, so the suggestions printed are
\* those of the findings whose call has returned, in their order.
C18_SuggestionsStreamed ==
    Command = "scan" =>
        /\ Len(Suggestions) = Len(LLMCalls)
        /\ \A i \in DOMAIN trace :
             trace[i].ev = "llm" => (i < Len(trace) /\ IsSuggestion(trace[i + 1]))
        /\ pc = "advising" => Len(Suggestions) = idx - 1
        /\ \A k \in 1..Len(Suggestions) : Suggestions[k].id = todo[k].check_id

\* C18 witness: two suggestions are out while the third finding is still to
\* be advised upon
C18_Witness ==
    /\ pc = "advising"
    /\ idx = 3
    /\ Len(todo) = 3
    /\ Len(Suggestions) = 2

\* C19: whenever the loop waits at the prompt the conversation is the system
\* message followed by user and assistant messages in strict alternation,
\* ending with an assistant message: 1 + 2k messages after k calls of the
\* language model, failed calls included.
C19_ConversationWellFormed ==
    pc = "input" =>
        /\ Len(chat_messages) = 1 + 2 * llm_calls
        /\ chat_messages[1] = SystemMessage
        /\ \A i \in 2..Len(chat_messages) :
             chat_messages[i].role = IF i % 2 = 0 THEN "user" ELSE "assistant"

\* C19 witness: the loop waits at the prompt after three calls, one of which failed
C19_Witness ==
    /\ pc = "input"
    /\ llm_calls = 3
    /\ Len(chat_messages) = 7
    /\ \E i \in DOMAIN chat_messages :
         chat_messages[i].role = "assistant" /\ chat_messages[i].content.text = GPT_ERROR

\* the words of the commands that do not talk to the language model
QuietCommands == {"fmt", "auto_fmt", "validate", "pr"}

\* C20: fmt, auto_fmt, validate and pr call the language model for nothing
\* and leave the conversation as it is; the conversation changes only while a
\* scan advises on its findings or on a free-text line; a free-text line
\* invokes neither the scanner nor the push step.
C20_WhoTouchesTheConversation ==
    [][/\ (pc = "input" /\ Command' \in QuietCommands)
            => (chat_messages' = chat_messages /\ llm_calls' = llm_calls /\ LLMCalls' = << >>)
       /\ chat_messages' # chat_messages
            => \/ pc = "advising" /\ Command = "scan" /\ HasPrinted("Found issues")
               \/ pc = "input" /\ Command' \notin CommandWords
       /\ (pc = "input" /\ Command' \notin CommandWords)
            => (ScannerCalls' = << >> /\ PushCalls' = << >>)]_vars

\* C20 witness: a pr command with findings left in its report has ended on a
\* conversation that holds only the turns of the free-text line before it
C20_Witness ==
    /\ pc = "input"
    /\ Command = "pr"
    /\ HasPrinted("Still found issues")
    /\ LLMCalls = << >>
    /\ llm_calls = 1
    /\ Len(chat_messages) = 3

====
